---- MODULE Spec2Model ----
(***************************************************************************)
(* A model of the job agent: the weekday scheduler (scheduler.py) and the  *)
(* pipeline it triggers (agent.py): search -> dedupe -> normalise -> rank  *)
(* -> tailor -> render -> send.                                            *)
(*                                                                         *)
(* Python values.  A string is a sequence of one-character strings, so     *)
(* that slicing, prefix tests and splitting are computed as Python         *)
(* computes them.  A value that may be None is a record [isNone, s].  A    *)
(* dict is a function whose domain is the set of keys that are present.    *)
(***************************************************************************)
EXTENDS Integers, Sequences, FiniteSets, TLC

VARIABLES
    \* scheduler.py
    day,            \* day of the week, 0 = Monday .. 6 = Sunday
    due,            \* a weekday job of the schedule is due and not yet run
    alive,          \* the scheduler process is running
    triggers,       \* history: triggers that have come due
    invoked,        \* history: calls of run() made by job()
    failures,       \* history: "Agent failed" lines logged by job()
    \* agent.py, run() and what it calls
    pc,             \* position of the pipeline
    searchIdx,      \* index into searches of the pair being fetched
    tier,           \* index into the date filters inside fetch_linkedin_jobs
    all_raw,        \* run(): all_raw
    seen_ids,       \* run(): seen_ids
    fetched,        \* history: every record returned by the fetch calls, in order
    fetchQueried,   \* history: date filters requested by the current/last fetch call
    fetchResp,      \* history: what each of those requests produced
    fetchRet,       \* history: [returned, val] of the current/last fetch call
    fetchLog,       \* history: "Job fetch error" lines logged in this run
    jobs,           \* run(): jobs
    top_jobs,       \* run(): top_jobs
    buildIdx,       \* build_email(): i, the entry being tailored
    tailored,       \* history: entries whose tailor_cv call returned
    contacted,      \* history: entries whose suggest_contacts call returned
    llmCalls,       \* history: client.messages.create calls of this run
    sendCalls,      \* history: send_email calls of this run
    delivered,      \* history: messages handed to the SMTP server in this run
    runErr,         \* the exception propagating out of run(), or "none"
    \* the pure functions, applied on their own
    arg,            \* the input a function is applied to
    ret,            \* what it returned
    called          \* whether it has been applied

vars == <<day, due, alive, triggers, invoked, failures, pc, searchIdx, tier,
          all_raw, seen_ids, fetched, fetchQueried, fetchResp, fetchRet, fetchLog,
          jobs, top_jobs, buildIdx, tailored, contacted, llmCalls, sendCalls,
          delivered, runErr, arg, ret, called>>

schedVars == <<day, due, alive, triggers, invoked, failures>>
runVars   == <<pc, searchIdx, tier, all_raw, seen_ids, fetched, fetchQueried,
               fetchResp, fetchRet, fetchLog, jobs, top_jobs, buildIdx, tailored,
               contacted, llmCalls, sendCalls, delivered, runErr>>
funVars   == <<arg, ret, called>>

----------------------------------------------------------------------------
\* Python values

None == [isNone |-> TRUE, s |-> <<>>]
Str(s) == [isNone |-> FALSE, s |-> s]
EmptyStr == Str(<<>>)

\* bool(v) for the values modelled: None and "" are falsy
Truthy(v) == ~v.isNone /\ v.s # <<>>

\* a or b
Or(a, b) == IF Truthy(a) THEN a ELSE b

\* j.get(k) and j.get(k, d)
Get(j, k) == IF k \in DOMAIN j THEN j[k] ELSE None
GetDefault(j, k, d) == IF k \in DOMAIN j THEN j[k] ELSE d

Min(a, b) == IF a <= b THEN a ELSE b
Max(a, b) == IF a >= b THEN a ELSE b

\* s[:n]
PySliceTo(s, n) ==
    IF n >= 0 THEN SubSeq(s, 1, Min(n, Len(s)))
    ELSE SubSeq(s, 1, Max(Len(s) + n, 0))

\* s[n:], n >= 0
PySliceFrom(s, n) == SubSeq(s, Min(n, Len(s)) + 1, Len(s))

\* s.startswith(p)
StartsWith(s, p) == Len(s) >= Len(p) /\ SubSeq(s, 1, Len(p)) = p

\* xs[k] for a Python list: a negative k counts from the end
PyIndex(xs, k) ==
    IF k >= 0 /\ k < Len(xs) THEN [ok |-> TRUE, val |-> xs[k + 1]]
    ELSE IF k < 0 /\ k >= -Len(xs) THEN [ok |-> TRUE, val |-> xs[Len(xs) + k + 1]]
    ELSE [ok |-> FALSE, val |-> xs]

\* n copies of the character c
Rep(c, n) == [i \in 1..n |-> c]

----------------------------------------------------------------------------
\* Bounds of the model, and the constants of the program

Limit == 15               \* run(): fetch_linkedin_jobs(keywords, location, limit=15)
DescCap == 3000           \* parse_jobs(): [:3000]
TopN == 10                \* select_top_jobs(): [:10]
MaxOver == 1              \* how far a response may exceed Limit
MaxTriggers == 2          \* triggers followed from the start of the process

DateFilters == <<"3days", "week">>
Searches == <<"HR People Operations Marketing", "Talent Acquisition Content",
              "HR Marketing remote">>

----------------------------------------------------------------------------
\* Raw listings: dicts of the search API

S(c) == Str(<<c>>)

Universe ==
    << [job_id |-> S("a"), job_apply_link |-> S("u"), job_title |-> S("T")],
       [job_id |-> S("a"), job_apply_link |-> S("v")],
       [job_apply_link |-> S("u"), employer_name |-> S("E")],
       [job_id |-> EmptyStr, job_apply_link |-> S("u")],
       [job_id |-> None, job_apply_link |-> S("a")],
       [employer_name |-> S("E")],
       [job_id |-> None, job_apply_link |-> None],
       [job_id |-> S("b"), job_google_link |-> S("g")] >>

\* a response of n records: the universe read cyclically from position start
Batch(n, start) == [i \in 1..n |-> Universe[((start + i - 2) % Len(Universe)) + 1]]

\* what one requests.get / raise_for_status / r.json() can produce
Ok(d)    == [kind |-> "ok", hasData |-> TRUE,  dataNull |-> FALSE, data |-> d]
NoData   == [kind |-> "ok", hasData |-> FALSE, dataNull |-> FALSE, data |-> <<>>]
NullData == [kind |-> "ok", hasData |-> TRUE,  dataNull |-> TRUE,  data |-> <<>>]
Fail(k)  == [kind |-> k,    hasData |-> FALSE, dataNull |-> FALSE, data |-> <<>>]

RequestErrors == {"ConnectionError", "HTTPError", "JSONDecodeError"}

SearchLens == {0, 1, 2, Limit - 1, Limit} \cup (Limit + 1 .. Limit + MaxOver)
SearchStarts == {1, 2, 5}
SearchOutcomes ==
    {Ok(Batch(n, s)) : n \in SearchLens, s \in SearchStarts}
        \cup {NoData, NullData} \cup {Fail(k) : k \in RequestErrors}

PipelineOutcomes ==
    {Ok(Batch(n, 1)) : n \in {0, 3}} \cup {Fail("ConnectionError")}

----------------------------------------------------------------------------
\* fetch_linkedin_jobs

\* the try block of one date filter: the request, the parse, the slice
TryBody(o, limit) ==
    IF o.kind # "ok" THEN [raised |-> TRUE, exc |-> o.kind, jobs |-> <<>>]
    ELSE IF o.hasData /\ o.dataNull
         THEN [raised |-> TRUE, exc |-> "TypeError", jobs |-> <<>>]
    ELSE [raised |-> FALSE, exc |-> "none",
          jobs |-> PySliceTo(IF o.hasData THEN o.data ELSE <<>>, limit)]

\* except Exception
FetchCatches(exc) == TRUE

\* a faulty variant of FetchStep: the response is not cut to the limit
FetchStepNoSlice(o, t, limit) ==
    LET b == TryBody(o, Len(o.data)) IN
    IF b.raised THEN [act |-> "return", val |-> <<>>, logged |-> TRUE]
    ELSE IF b.jobs # <<>> THEN [act |-> "return", val |-> b.jobs, logged |-> FALSE]
    ELSE IF t < Len(DateFilters) THEN [act |-> "next", val |-> <<>>, logged |-> FALSE]
    ELSE [act |-> "return", val |-> <<>>, logged |-> FALSE]

\* a faulty variant of FetchStep: a failed request falls back to the wider filter
FetchStepFallsBack(o, t, limit) ==
    LET b == TryBody(o, limit) IN
    IF b.raised
    THEN IF t < Len(DateFilters) THEN [act |-> "next", val |-> <<>>, logged |-> TRUE]
         ELSE [act |-> "return", val |-> <<>>, logged |-> TRUE]
    ELSE IF b.jobs # <<>> THEN [act |-> "return", val |-> b.jobs, logged |-> FALSE]
    ELSE IF t < Len(DateFilters) THEN [act |-> "next", val |-> <<>>, logged |-> FALSE]
    ELSE [act |-> "return", val |-> <<>>, logged |-> FALSE]

\* one iteration of the loop over the date filters, given what the request
\* produced: return a value, go on to the next filter, or raise
FetchStep(o, t, limit) ==
    LET b == TryBody(o, limit) IN
    IF b.raised
    THEN IF FetchCatches(b.exc) THEN [act |-> "return", val |-> <<>>, logged |-> TRUE]
         ELSE [act |-> "raise", val |-> <<>>, logged |-> FALSE]
    ELSE IF b.jobs # <<>> THEN [act |-> "return", val |-> b.jobs, logged |-> FALSE]
    ELSE IF t < Len(DateFilters) THEN [act |-> "next", val |-> <<>>, logged |-> FALSE]
    ELSE [act |-> "return", val |-> <<>>, logged |-> FALSE]

----------------------------------------------------------------------------
\* run(): the deduplication of the fetched batches

\* job.get("job_id") or job.get("job_apply_link", "")
IdentityKey(job) == Or(Get(job, "job_id"), GetDefault(job, "job_apply_link", EmptyStr))

\* a faulty variant of IsUnseen: every record is taken
IsUnseenAlways(job_id, seen) == TRUE

\* job_id not in seen_ids
IsUnseen(job_id, seen) == job_id \notin seen

RECURSIVE Dedup(_, _, _)
Dedup(raw, seen, results) ==
    IF results = <<>> THEN [all_raw |-> raw, seen_ids |-> seen]
    ELSE LET job == Head(results)
             job_id == IdentityKey(job)
         IN  IF IsUnseen(job_id, seen)
             THEN Dedup(Append(raw, job), seen \cup {job_id}, Tail(results))
             ELSE Dedup(raw, seen, Tail(results))

----------------------------------------------------------------------------
\* parse_jobs

Unknown == Str(<<"U", "n", "k", "n", "o", "w", "n">>)

ParseJob(j) ==
    [title       |-> Or(Get(j, "job_title"), Unknown),
     company     |-> Or(Get(j, "employer_name"), Unknown),
     location    |-> Str(Or(Get(j, "job_city"), EmptyStr).s \o <<",", " ">>
                            \o Or(Get(j, "job_country"), EmptyStr).s),
     url         |-> Or(Or(Get(j, "job_apply_link"), Get(j, "job_google_link")), EmptyStr),
     description |-> Str(PySliceTo(Or(Get(j, "job_description"), EmptyStr).s, DescCap)),
     posted      |-> Or(Get(j, "job_posted_at_datetime_utc"), EmptyStr)]

ParseJobs(raw_jobs) == [i \in 1..Len(raw_jobs) |-> ParseJob(raw_jobs[i])]

----------------------------------------------------------------------------
\* select_top_jobs

\* a faulty variant of NeedsModel: the model is asked about an empty list too
NeedsModelAlways(js) == TRUE

\* "if not jobs: return []": the model is asked only about a non-empty list
NeedsModel(js) == js # <<>>

\* sorted(rankings, key=score, reverse=True): stable, so entries of equal
\* score keep the order of the response
RECURSIVE InsertDesc(_, _)
InsertDesc(sorted, x) ==
    IF sorted = <<>> THEN <<x>>
    ELSE IF Head(sorted).score >= x.score
         THEN <<Head(sorted)>> \o InsertDesc(Tail(sorted), x)
         ELSE <<x>> \o sorted

RECURSIVE SortDesc(_)
SortDesc(rankings) ==
    IF rankings = <<>> THEN <<>>
    ELSE InsertDesc(SortDesc(SubSeq(rankings, 1, Len(rankings) - 1)),
                    rankings[Len(rankings)])

\* a faulty variant of TopOf: the cut without the sort
TopOfUnsorted(rankings) == PySliceTo(rankings, TopN)

\* sorted(...)[:10]
TopOf(rankings) == PySliceTo(SortDesc(rankings), TopN)

\* jobs[r["index"] - 1]
Lookup(js, index) == PyIndex(js, index - 1)

\* the sort, the cut and the list comprehension of the last two lines
Rank(js, rankings) ==
    LET top == TopOf(rankings)
        got == [i \in 1..Len(top) |-> Lookup(js, top[i].index)]
    IN  IF \E i \in 1..Len(top) : ~got[i].ok
        THEN [ok |-> FALSE, exc |-> "IndexError", val |-> <<>>]
        ELSE [ok |-> TRUE, exc |-> "none",
              val |-> [i \in 1..Len(top) |->
                          [job |-> got[i].val, score |-> top[i].score,
                           reason |-> top[i].reason]]]

----------------------------------------------------------------------------
\* The handling of the model's reply in select_top_jobs and suggest_contacts

\* the backquote character, written as a token of its own
BackQuote == "bq"
WS == {" ", "\n"}
Fence == <<BackQuote, BackQuote, BackQuote>>
JsonTag == <<"j", "s", "o", "n">>

RECURSIVE LStrip(_)
LStrip(s) == IF s # <<>> /\ Head(s) \in WS THEN LStrip(Tail(s)) ELSE s

RECURSIVE RStrip(_)
RStrip(s) ==
    IF s # <<>> /\ s[Len(s)] \in WS THEN RStrip(SubSeq(s, 1, Len(s) - 1)) ELSE s

\* s.strip()
Strip(s) == RStrip(LStrip(s))

\* the index (from 1) of the first occurrence of sep in s at or after p, or 0
RECURSIVE Find(_, _, _)
Find(s, sep, p) ==
    IF p + Len(sep) - 1 > Len(s) THEN 0
    ELSE IF SubSeq(s, p, p + Len(sep) - 1) = sep THEN p
    ELSE Find(s, sep, p + 1)

\* s.split(sep)
RECURSIVE Split(_, _)
Split(s, sep) ==
    LET p == Find(s, sep, 1) IN
    IF p = 0 THEN <<s>>
    ELSE <<SubSeq(s, 1, p - 1)>> \o Split(SubSeq(s, p + Len(sep), Len(s)), sep)

\* text = ....strip(); if text.startswith(fence): text = text.split(fence)[1];
\* if text.startswith("json"): text = text[4:]
StripFence(reply) ==
    LET text == Strip(reply) IN
    IF StartsWith(text, Fence)
    THEN LET inner == Split(text, Fence)[2] IN
         IF StartsWith(inner, JsonTag) THEN PySliceFrom(inner, 4) ELSE inner
    ELSE text

----------------------------------------------------------------------------
\* What the language model's replies can be, once json.loads has run

Entry(i, sc, r) == [index |-> i, score |-> sc, reason |-> r]
Reply(rankings) == [kind |-> "ok", rankings |-> rankings]
ReplyFails(k) == [kind |-> k, rankings |-> <<>>]

\* the call fails, the reply is no JSON, an entry lacks a key
ModelErrors == {"APIError", "JSONDecodeError", "KeyError"}

PipelineReplies ==
    {Reply(<<>>), Reply(<<Entry(1, 90, 1)>>), Reply(<<Entry(1, 50, 1), Entry(2, 90, 2)>>),
     Reply(<<Entry(3, 70, 1)>>)} \cup {ReplyFails(k) : k \in ModelErrors}

\* select_top_jobs, given what the model call and json.loads produce: the
\* parsed reply, or the exception of either (the text handling between the
\* two is StripFence, and the parse is JsonLoads, further down)
SelectTopJobs(js, reply) ==
    IF ~NeedsModel(js) THEN [ok |-> TRUE, exc |-> "none", val |-> <<>>, asked |-> FALSE]
    ELSE IF reply.kind # "ok"
         THEN [ok |-> FALSE, exc |-> reply.kind, val |-> <<>>, asked |-> TRUE]
    ELSE LET r == Rank(js, reply.rankings) IN
         [ok |-> r.ok, exc |-> r.exc, val |-> r.val, asked |-> TRUE]

----------------------------------------------------------------------------
\* build_email: where the loop over top_jobs goes after a step

\* a faulty variant of AfterStep: a failed step skips the entry
AfterStepSkips(step, ok, i, n) ==
    IF step = "tailor" /\ ok THEN [pc |-> "contacts", i |-> i]
    ELSE IF i < n THEN [pc |-> "tailor", i |-> i + 1]
    ELSE [pc |-> "send", i |-> i]

\* tailor_cv then suggest_contacts for entry i of n; an exception of either
\* leaves build_email and run
AfterStep(step, ok, i, n) ==
    IF ~ok THEN [pc |-> "raised", i |-> i]
    ELSE IF step = "tailor" THEN [pc |-> "contacts", i |-> i]
    ELSE IF i < n THEN [pc |-> "tailor", i |-> i + 1]
    ELSE [pc |-> "send", i |-> i]

----------------------------------------------------------------------------
\* scheduler.py

Weekdays == 0..4

\* a faulty variant of JobCatches: only transport errors are caught
JobCatchesTransportOnly(exc) == exc \in {"APIError", "SMTPException"}

\* except Exception
JobCatches(exc) == TRUE

----------------------------------------------------------------------------
\* The state of a process that has just started, and of run() before it is called

NoFetch == [returned |-> FALSE, val |-> <<>>]
NoResult == [ok |-> FALSE, exc |-> "pending", val |-> <<>>]

RunStart ==
    /\ pc = "idle" /\ searchIdx = 1 /\ tier = 1
    /\ all_raw = <<>> /\ seen_ids = {} /\ fetched = <<>>
    /\ fetchQueried = <<>> /\ fetchResp = <<>> /\ fetchRet = NoFetch /\ fetchLog = 0
    /\ jobs = <<>> /\ top_jobs = <<>> /\ buildIdx = 0
    /\ tailored = {} /\ contacted = {}
    /\ llmCalls = 0 /\ sendCalls = 0 /\ delivered = 0 /\ runErr = "none"

\* the frame of run() is gone once it has returned or raised
RunReset ==
    /\ pc' = "idle" /\ searchIdx' = 1 /\ tier' = 1
    /\ all_raw' = <<>> /\ seen_ids' = {} /\ fetched' = <<>>
    /\ fetchQueried' = <<>> /\ fetchResp' = <<>> /\ fetchRet' = NoFetch /\ fetchLog' = 0
    /\ jobs' = <<>> /\ top_jobs' = <<>> /\ buildIdx' = 0
    /\ tailored' = {} /\ contacted' = {}
    /\ llmCalls' = 0 /\ sendCalls' = 0 /\ delivered' = 0 /\ runErr' = "none"

SchedStart ==
    /\ day \in 0..6 /\ due = FALSE /\ alive = TRUE
    /\ triggers = 0 /\ invoked = 0 /\ failures = 0

FunIdle == arg = <<>> /\ ret = NoResult /\ called = FALSE

Init == SchedStart /\ RunStart /\ FunIdle

----------------------------------------------------------------------------
\* scheduler.py: the loop, the schedule, job()

\* the clock reaches the next 08:00; on a weekday that day's job comes due
Tick ==
    /\ alive /\ pc = "idle" /\ ~due /\ triggers < MaxTriggers
    /\ day' = (day + 1) % 7
    /\ due' = (day' \in Weekdays)
    /\ triggers' = IF day' \in Weekdays THEN triggers + 1 ELSE triggers
    /\ UNCHANGED <<alive, invoked, failures>>
    /\ UNCHANGED runVars /\ UNCHANGED funVars

\* schedule.run_pending() runs the due job: job() calls run()
RunPending ==
    /\ alive /\ pc = "idle" /\ due
    /\ due' = FALSE
    /\ invoked' = invoked + 1
    /\ pc' = "load"
    /\ UNCHANGED <<day, alive, triggers, failures>>
    /\ UNCHANGED <<searchIdx, tier, all_raw, seen_ids, fetched, fetchQueried, fetchResp,
                   fetchRet, fetchLog, jobs, top_jobs, buildIdx, tailored, contacted,
                   llmCalls, sendCalls, delivered, runErr>>
    /\ UNCHANGED funVars

\* run() has returned or raised: job() returns, or the exception leaves the loop
JobReturn ==
    /\ pc \in {"done", "raised"}
    /\ IF pc = "raised"
       THEN IF JobCatches(runErr)
            THEN alive' = alive /\ failures' = failures + 1
            ELSE alive' = FALSE /\ failures' = failures
       ELSE alive' = alive /\ failures' = failures
    /\ RunReset
    /\ UNCHANGED <<day, due, triggers, invoked>>
    /\ UNCHANGED funVars

----------------------------------------------------------------------------
\* agent.py: run()

Raise(exc) == pc' = "raised" /\ runErr' = exc

\* cv = load_file(CV_PATH); preferences = load_file(PREFERENCES_PATH)
LoadFiles ==
    /\ pc = "load"
    /\ \/ pc' = "search" /\ runErr' = runErr
       \/ Raise("FileNotFoundError")
    /\ UNCHANGED <<searchIdx, tier, all_raw, seen_ids, fetched, fetchQueried, fetchResp,
                   fetchRet, fetchLog, jobs, top_jobs, buildIdx, tailored, contacted,
                   llmCalls, sendCalls, delivered>>
    /\ UNCHANGED schedVars /\ UNCHANGED funVars

\* one request of fetch_linkedin_jobs for the pair searches[searchIdx] and, when
\* the call returns, the rest of the loop body of run()
FetchTier(outcomes) ==
    /\ pc = "search"
    /\ \E o \in outcomes :
        LET st == FetchStep(o, tier, Limit)
            d  == Dedup(all_raw, seen_ids, st.val)
        IN  /\ fetchQueried' = (IF tier = 1 THEN <<>> ELSE fetchQueried)
                                    \o <<DateFilters[tier]>>
            /\ fetchResp' = (IF tier = 1 THEN <<>> ELSE fetchResp) \o <<o>>
            /\ fetchLog' = fetchLog + (IF st.logged THEN 1 ELSE 0)
            /\ IF st.act = "next"
               THEN /\ tier' = tier + 1
                    /\ fetchRet' = NoFetch
                    /\ UNCHANGED <<pc, searchIdx, all_raw, seen_ids, fetched, runErr>>
               ELSE IF st.act = "return"
               THEN /\ tier' = 1
                    /\ fetchRet' = [returned |-> TRUE, val |-> st.val]
                    /\ all_raw' = d.all_raw
                    /\ seen_ids' = d.seen_ids
                    /\ fetched' = fetched \o st.val
                    /\ IF searchIdx < Len(Searches)
                       THEN searchIdx' = searchIdx + 1 /\ pc' = "search"
                       ELSE searchIdx' = searchIdx /\ pc' = "parse"
                    /\ runErr' = runErr
               ELSE /\ Raise(TryBody(o, Limit).exc)
                    /\ fetchRet' = NoFetch
                    /\ UNCHANGED <<tier, searchIdx, all_raw, seen_ids, fetched>>
    /\ UNCHANGED <<jobs, top_jobs, buildIdx, tailored, contacted, llmCalls, sendCalls,
                   delivered>>
    /\ UNCHANGED schedVars /\ UNCHANGED funVars

\* jobs = parse_jobs(all_raw); top_jobs = select_top_jobs(...); if not top_jobs: return
ParseAndSelect ==
    /\ pc = "parse"
    /\ jobs' = ParseJobs(all_raw)
    /\ \E reply \in PipelineReplies :
        LET r == SelectTopJobs(jobs', reply) IN
            /\ llmCalls' = llmCalls + (IF r.asked THEN 1 ELSE 0)
            /\ IF ~r.ok
               THEN Raise(r.exc) /\ UNCHANGED <<top_jobs, buildIdx>>
               ELSE /\ top_jobs' = r.val
                    /\ runErr' = runErr
                    /\ IF r.val = <<>>
                       THEN pc' = "done" /\ buildIdx' = buildIdx
                       ELSE pc' = "tailor" /\ buildIdx' = 1
    /\ UNCHANGED <<searchIdx, tier, all_raw, seen_ids, fetched, fetchQueried, fetchResp,
                   fetchRet, fetchLog, tailored, contacted, sendCalls, delivered>>
    /\ UNCHANGED schedVars /\ UNCHANGED funVars

\* build_email: tailored = tailor_cv(cv, job)
TailorCV ==
    /\ pc = "tailor"
    /\ llmCalls' = llmCalls + 1
    /\ \E ok \in BOOLEAN :
        LET a == AfterStep("tailor", ok, buildIdx, Len(top_jobs)) IN
            /\ tailored' = IF ok THEN tailored \cup {buildIdx} ELSE tailored
            /\ pc' = a.pc /\ buildIdx' = a.i
            /\ runErr' = IF a.pc = "raised" THEN "APIError" ELSE runErr
    /\ UNCHANGED <<searchIdx, tier, all_raw, seen_ids, fetched, fetchQueried, fetchResp,
                   fetchRet, fetchLog, jobs, top_jobs, contacted, sendCalls, delivered>>
    /\ UNCHANGED schedVars /\ UNCHANGED funVars

\* build_email: contacts = suggest_contacts(job, preferences), and the
\* rendering of the entry
SuggestContacts ==
    /\ pc = "contacts"
    /\ llmCalls' = llmCalls + 1
    /\ \E out \in {"ok"} \cup ModelErrors :
        LET a == AfterStep("contacts", out = "ok", buildIdx, Len(top_jobs)) IN
            \* a KeyError comes from the rendering, after the call has returned
            /\ contacted' = IF out \in {"ok", "KeyError"} THEN contacted \cup {buildIdx}
                                                          ELSE contacted
            /\ pc' = a.pc /\ buildIdx' = a.i
            /\ runErr' = IF a.pc = "raised" THEN out ELSE runErr
    /\ UNCHANGED <<searchIdx, tier, all_raw, seen_ids, fetched, fetchQueried, fetchResp,
                   fetchRet, fetchLog, jobs, top_jobs, tailored, sendCalls, delivered>>
    /\ UNCHANGED schedVars /\ UNCHANGED funVars

\* send_email(html)
SendEmail ==
    /\ pc = "send"
    /\ sendCalls' = sendCalls + 1
    /\ \/ delivered' = delivered + 1 /\ pc' = "done" /\ runErr' = runErr
       \/ delivered' = delivered /\ Raise("SMTPException")
    /\ UNCHANGED <<searchIdx, tier, all_raw, seen_ids, fetched, fetchQueried, fetchResp,
                   fetchRet, fetchLog, jobs, top_jobs, buildIdx, tailored, contacted,
                   llmCalls>>
    /\ UNCHANGED schedVars /\ UNCHANGED funVars

Next ==
    \/ Tick
    \/ RunPending
    \/ LoadFiles
    \/ FetchTier(PipelineOutcomes)
    \/ ParseAndSelect
    \/ TailorCV
    \/ SuggestContacts
    \/ SendEmail
    \/ JobReturn

\* "while True: schedule.run_pending(); time.sleep(30)": a due job is run
Spec == Init /\ [][Next]_vars /\ WF_vars(RunPending)

----------------------------------------------------------------------------
\* The loop of run() over the search pairs, on its own: the state after the
\* two files are loaded, with responses longer and more varied than in Spec

SearchInit ==
    /\ day = 0 /\ due = FALSE /\ alive = TRUE
    /\ triggers = 1 /\ invoked = 1 /\ failures = 0
    /\ pc = "search" /\ searchIdx = 1 /\ tier = 1
    /\ all_raw = <<>> /\ seen_ids = {} /\ fetched = <<>>
    /\ fetchQueried = <<>> /\ fetchResp = <<>> /\ fetchRet = NoFetch /\ fetchLog = 0
    /\ jobs = <<>> /\ top_jobs = <<>> /\ buildIdx = 0
    /\ tailored = {} /\ contacted = {}
    /\ llmCalls = 0 /\ sendCalls = 0 /\ delivered = 0 /\ runErr = "none"
    /\ FunIdle

SearchNext == FetchTier(SearchOutcomes)

SearchSpec == SearchInit /\ [][SearchNext]_vars

----------------------------------------------------------------------------
\* The pure functions applied to inputs of their own

MaxJobs == 3              \* listings handed to select_top_jobs

FunStart ==
    /\ day = 0 /\ due = FALSE /\ alive = TRUE
    /\ triggers = 0 /\ invoked = 0 /\ failures = 0
    /\ RunStart
    /\ ret = NoResult /\ called = FALSE

\* select_top_jobs -----------------------------------------------------------

Titles == <<"A", "B", "C", "D", "E", "F">>
JobList(n) == [i \in 1..n |-> ParseJob([job_title |-> S(Titles[i])])]

Scores == {50, 90}
IndexRange == (0 - MaxJobs - 1) .. (MaxJobs + 1)

\* every response of at most two entries
ShortRankings ==
    {<<>>}
      \cup {<<Entry(i, sc, 1)>> : i \in IndexRange, sc \in Scores}
      \cup {<<Entry(i[1], sc[1], 1), Entry(i[2], sc[2], 2)>> :
                i \in IndexRange \X IndexRange, sc \in Scores \X Scores}

\* the score of entry i of a long response, in one of five shapes
ScoreShape(p, i) ==
    CASE p = 1 -> 50
      [] p = 2 -> i
      [] p = 3 -> 100 - i
      [] p = 4 -> IF i % 2 = 0 THEN 90 ELSE 50
      [] p = 5 -> 10 * (i % 3)

\* responses of about TopN entries whose indices are all within 1..n
LongRankings(n) ==
    IF n = 0 THEN {}
    ELSE {[i \in 1..k |-> Entry(((i - 1) % n) + 1, ScoreShape(p, i), i)] :
              k \in (TopN - 1) .. (TopN + MaxOver), p \in 1..5}

RankInit ==
    /\ FunStart
    /\ \E n \in 0..MaxJobs :
         \E rk \in ShortRankings \cup LongRankings(n) :
            arg = [jobs |-> JobList(n), reply |-> Reply(rk)]

ApplySelect ==
    /\ ~called
    /\ called' = TRUE
    /\ ret' = SelectTopJobs(arg.jobs, arg.reply)
    /\ UNCHANGED arg
    /\ UNCHANGED schedVars /\ UNCHANGED runVars

RankSpec == RankInit /\ [][ApplySelect]_vars

\* parse_jobs ------------------------------------------------------------------

DescLens == {0, 1, DescCap - 1, DescCap} \cup (DescCap + 1 .. DescCap + MaxOver)

\* the keys of a raw listing that parse_jobs reads, and the ways each can come
FieldKinds ==
    [job_title                  |-> {"absent", "null", "empty", "text"},
     employer_name              |-> {"absent", "text"},
     job_city                   |-> {"absent", "null", "text"},
     job_country                |-> {"absent", "text"},
     job_apply_link             |-> {"absent", "empty", "text"},
     job_google_link            |-> {"absent", "text"},
     job_description            |-> {"absent", "null", "text"},
     job_posted_at_datetime_utc |-> {"absent", "text"}]

FieldText ==
    [job_title |-> "T", employer_name |-> "E", job_city |-> "C", job_country |-> "K",
     job_apply_link |-> "u", job_google_link |-> "g", job_description |-> "d",
     job_posted_at_datetime_utc |-> "p"]

Shapes == {c \in [DOMAIN FieldKinds -> {"absent", "null", "empty", "text"}] :
              \A f \in DOMAIN FieldKinds : c[f] \in FieldKinds[f]}

\* the dict of shape c whose description, when it has one, is n characters long
RawRecord(c, n) ==
    [f \in {g \in DOMAIN FieldKinds : c[g] # "absent"} \cup {"job_employment_type"} |->
        IF f = "job_employment_type" THEN S("F")
        ELSE IF c[f] = "null" THEN None
        ELSE IF c[f] = "empty" THEN EmptyStr
        ELSE IF f = "job_description" THEN Str(Rep("d", n))
        ELSE S(FieldText[f])]

RawLists ==
    {<<RawRecord(c, n)>> : c \in Shapes, n \in DescLens}
        \cup {Batch(n, s) : n \in {0, 2, 3}, s \in SearchStarts}

ParseInit == FunStart /\ arg \in RawLists

ApplyParse ==
    /\ ~called
    /\ called' = TRUE
    /\ ret' = [ok |-> TRUE, exc |-> "none", val |-> ParseJobs(arg)]
    /\ UNCHANGED arg
    /\ UNCHANGED schedVars /\ UNCHANGED runVars

ParseSpec == ParseInit /\ [][ApplyParse]_vars

\* the reply handling -----------------------------------------------------------

Quote == "q"              \* the double-quote character, written as a token of its own
Digits == {"1", "2"}

SkipWS(t, p) ==
    LET rest == SubSeq(t, p, Len(t)) IN p + (Len(rest) - Len(LStrip(rest)))

\* where the JSON string that opens at p ends (the index after its closing
\* quote), or 0: a string holds no raw newline
StringEnd(t, p) ==
    IF p > Len(t) \/ t[p] # Quote THEN 0
    ELSE LET q == Find(t, <<Quote>>, p + 1) IN
         IF q = 0 \/ \E i \in (p + 1)..(q - 1) : t[i] = "\n" THEN 0 ELSE q + 1

RECURSIVE NumberEnd(_, _)
NumberEnd(t, p) ==
    IF p <= Len(t) /\ t[p] \in Digits
    THEN LET e == NumberEnd(t, p + 1) IN IF e = 0 THEN p + 1 ELSE e
    ELSE 0

\* where the JSON value that starts at p ends, or 0 when there is none: a
\* string, a number, or an array of values
RECURSIVE ValueEnd(_, _)
RECURSIVE ElementsEnd(_, _)
ElementsEnd(t, p) ==
    LET v == ValueEnd(t, p) IN
    IF v = 0 THEN 0
    ELSE LET n == SkipWS(t, v) IN
         IF n > Len(t) THEN 0
         ELSE IF t[n] = "]" THEN n + 1
         ELSE IF t[n] = "," THEN ElementsEnd(t, SkipWS(t, n + 1))
         ELSE 0

ValueEnd(t, p) ==
    IF p > Len(t) THEN 0
    ELSE IF t[p] = Quote THEN StringEnd(t, p)
    ELSE IF t[p] \in Digits THEN NumberEnd(t, p)
    ELSE IF t[p] = "["
         THEN LET n == SkipWS(t, p + 1) IN
              IF n <= Len(t) /\ t[n] = "]" THEN n + 1 ELSE ElementsEnd(t, n)
    ELSE 0

\* json.loads(text) returns rather than raises
JsonLoads(text) ==
    LET e == ValueEnd(text, SkipWS(text, 1)) IN
    e # 0 /\ SkipWS(text, e) = Len(text) + 1

\* JSON texts a reply can carry, and texts that are no JSON
JsonTexts ==
    { <<"[", "]">>,
      <<"[", "1", "]">>,
      <<"[", "1", ",", " ", "2", "]">>,
      <<"[", Quote, "x", Quote, "]">>,
      <<"[", "\n", Quote, "x", Quote, ",", "[", "2", "]", "\n", "]">>,
      <<Quote, "j", "s", "o", "n", Quote>>,
      <<"[", Quote, "x", BackQuote, BackQuote, BackQuote, "x", Quote, "]">>,
      <<"[", Quote, BackQuote, BackQuote, Quote, "]">> }
NonJsonTexts ==
    { <<"x">>, <<"[", "1">>, <<"[", "1", ",", "]">>, <<"[", Quote, "x", "]">>, <<>> }

Tags == { <<>>, JsonTag, <<"J", "S", "O", "N">>, <<"j", "s">> }
Pads == { <<>>, <<" ">>, <<"\n">>, <<"\n", " ">> }

\* the text of a reply: the payload, bare or inside a fence with a language tag
ReplyText(a) ==
    a.lead
      \o (IF a.fenced
          THEN Fence \o a.tag \o <<"\n">> \o a.payload \o <<"\n">> \o Fence
          ELSE a.payload)
      \o a.trail

FenceInit ==
    /\ FunStart
    /\ \E lead \in Pads, trail \in Pads, payload \in JsonTexts \cup NonJsonTexts :
         \/ arg = [lead |-> lead, trail |-> trail, payload |-> payload,
                   fenced |-> FALSE, tag |-> <<>>]
         \/ \E tag \in Tags :
              arg = [lead |-> lead, trail |-> trail, payload |-> payload,
                     fenced |-> TRUE, tag |-> tag]

\* the lines between the model call and the use of the parsed value
ApplyLoads ==
    /\ ~called
    /\ called' = TRUE
    /\ LET text == StripFence(ReplyText(arg)) IN
         ret' = [ok |-> JsonLoads(text),
                 exc |-> IF JsonLoads(text) THEN "none" ELSE "JSONDecodeError",
                 val |-> text]
    /\ UNCHANGED arg
    /\ UNCHANGED schedVars /\ UNCHANGED runVars

FenceSpec == FenceInit /\ [][ApplyLoads]_vars

----------------------------------------------------------------------------
\* The properties

\* the identity key of a raw listing: its job_id, or its job_apply_link when
\* the job_id is absent, null or empty ("" when that is absent too)
ClaimKey(j) ==
    IF "job_id" \in DOMAIN j /\ ~j["job_id"].isNone /\ j["job_id"].s # <<>>
    THEN j["job_id"]
    ELSE IF "job_apply_link" \in DOMAIN j THEN j["job_apply_link"] ELSE EmptyStr

\* the positions of s that hold the first record of their key
FirstSeen(s) ==
    {i \in 1..Len(s) : \A h \in 1..(i - 1) : ClaimKey(s[h]) # ClaimKey(s[i])}

\* C1: all_raw holds, in the order they were first fetched, exactly the first
\* record of every identity key among the records the fetch calls of the run
\* returned: no two of its records share a key, and its length is the number
\* of distinct keys fetched.
C1_Dedup ==
    LET P == FirstSeen(fetched) IN
    /\ \A i, h \in 1..Len(all_raw) :
          i # h => ClaimKey(all_raw[i]) # ClaimKey(all_raw[h])
    /\ Len(all_raw) = Cardinality({ClaimKey(fetched[i]) : i \in 1..Len(fetched)})
    /\ \A i \in 1..Len(all_raw) :
          \E p \in P : Cardinality({q \in P : q <= p}) = i /\ all_raw[i] = fetched[p]

\* the three searches are over, two different records of one key were fetched
\* in different batches, and one of them was dropped
C1_Witness ==
    /\ pc = "parse"
    /\ Len(all_raw) >= 3
    /\ Len(all_raw) < Len(fetched)
    /\ \E i, h \in 1..Len(fetched) :
          /\ i < h /\ h > Limit
          /\ fetched[i] # fetched[h]
          /\ ClaimKey(fetched[i]) = ClaimKey(fetched[h])

\* the pipeline has left the search loop after all three fetch calls returned
SearchesDone ==
    /\ pc \notin {"idle", "load", "search"}
    /\ fetchRet.returned
    /\ searchIdx = Len(Searches)

\* C2: when every fetch call of a run returned an empty list, the run makes no
\* model call (ranking, tailoring or contacts), never calls send_email, selects
\* nothing and returns without an exception.
C2_EmptyRun ==
    (SearchesDone /\ fetched = <<>>) =>
        \/ pc = "parse"
        \/ /\ pc = "done"
           /\ jobs = <<>> /\ top_jobs = <<>>
           /\ llmCalls = 0 /\ tailored = {} /\ contacted = {}
           /\ sendCalls = 0 /\ delivered = 0
           /\ runErr = "none"

C2_Witness ==
    /\ SearchesDone /\ fetched = <<>> /\ pc = "done"
    /\ fetchLog = 0 /\ Len(fetchQueried) = Len(DateFilters)

\* C3: an exception of run() is caught and logged by job(): the process stays
\* alive, the run is not started again for the same trigger, and every trigger
\* that comes due, also after a failed run, is answered by one call of run().
C3_Scheduler ==
    /\ [](alive /\ invoked + (IF due THEN 1 ELSE 0) = triggers)
    /\ [][pc = "raised" =>
            /\ pc' = "idle" /\ alive'
            /\ failures' = failures + 1
            /\ ~due' /\ invoked' = invoked]_vars
    /\ [](due => <>(~due /\ pc = "load"))

\* after a failed run the next trigger has started the pipeline again
C3_Witness == alive /\ failures >= 1 /\ invoked >= 2 /\ pc = "load"

AllEntries == 1..Len(top_jobs)

\* C4: send_email is called at most once in a run, and only when tailor_cv and
\* suggest_contacts have returned for every selected job; a step that fails
\* for any of them raises out of run(), and nothing is sent.
C4_NoPartialDigest ==
    /\ [](/\ sendCalls <= 1 /\ delivered <= sendCalls
          /\ (pc = "send" \/ sendCalls >= 1) =>
                /\ top_jobs # <<>>
                /\ tailored = AllEntries /\ contacted = AllEntries)
    /\ [][(\/ pc = "tailor" /\ tailored' = tailored
           \/ pc = "contacts" /\ (contacted' = contacted \/ runErr' = "KeyError")) =>
              /\ pc' = "raised" /\ runErr' # "none"
              /\ sendCalls' = 0 /\ delivered' = 0]_vars

\* the contacts call of the second of two selected jobs failed
C4_Witness ==
    /\ pc = "raised" /\ Len(top_jobs) = 2 /\ buildIdx = 2
    /\ tailored = {1, 2} /\ contacted = {1}
    /\ sendCalls = 0 /\ delivered = 0

\* what a response of the search API carries, and whether handling it raises
RespErrored(o) == o.kind # "ok" \/ (o.hasData /\ o.dataNull)
RespData(o) == IF o.hasData THEN o.data ELSE <<>>
FirstN(d, n) == [i \in 1..(IF Len(d) < n THEN Len(d) ELSE n) |-> d[i]]

NoRequestError == \A i \in 1..Len(fetchResp) : ~RespErrored(fetchResp[i])

\* C5: without a request error, fetch_linkedin_jobs asks "3days" first and
\* "week" only when "3days" gave nothing, and returns the first non-empty
\* response cut to at most Limit records, or the empty list when both are empty.
C5_Fetch ==
    (fetchQueried # <<>> /\ NoRequestError) =>
        /\ Len(fetchResp) = Len(fetchQueried)
        /\ fetchQueried = SubSeq(DateFilters, 1, Len(fetchQueried))
        /\ \A i \in 1..(Len(fetchResp) - 1) : RespData(fetchResp[i]) = <<>>
        /\ fetchRet.returned <=>
              \/ RespData(fetchResp[Len(fetchResp)]) # <<>>
              \/ Len(fetchQueried) = Len(DateFilters)
        /\ fetchRet.returned =>
              /\ fetchRet.val = FirstN(RespData(fetchResp[Len(fetchResp)]), Limit)
              /\ Len(fetchRet.val) <= Limit

\* "3days" gave nothing and "week" gave more than Limit records
C5_Witness ==
    /\ fetchRet.returned /\ NoRequestError
    /\ fetchQueried = DateFilters
    /\ Len(RespData(fetchResp[2])) > Limit
    /\ Len(fetchRet.val) = Limit

\* C6: a request of fetch_linkedin_jobs that fails (transport, HTTP status,
\* body) is logged and ends the call at once with the empty list: the filter is
\* not asked again, the wider filter is not asked, nothing is raised, and run()
\* goes on with the next search pair (or, after the last, with the parse).
C6_FetchError ==
    [][(pc = "search" /\ RespErrored(fetchResp'[Len(fetchResp')])) =>
          /\ fetchRet' = [returned |-> TRUE, val |-> <<>>]
          /\ Len(fetchQueried') = tier /\ tier' = 1
          /\ fetchLog' = fetchLog + 1
          /\ all_raw' = all_raw /\ seen_ids' = seen_ids
          /\ runErr' = "none"
          /\ IF searchIdx < Len(Searches)
             THEN pc' = "search" /\ searchIdx' = searchIdx + 1
             ELSE pc' = "parse"]_vars

\* one request of the first or second pair failed, and the run went on to
\* fetch listings for a later pair
C6_Witness ==
    /\ pc = "parse" /\ fetchLog = 1 /\ runErr = "none"
    /\ Len(fetched) > 0
    /\ fetchRet.val # <<>>


\* the entries of the response handed to select_top_jobs, and whether the
\* index of each is one of 1..N
Response == arg.reply.rankings
IndicesValid == \A p \in 1..Len(Response) : Response[p].index \in 1..Len(arg.jobs)

\* the entry of the response an entry of the result was made from (the
\* reason of each entry of a response is its position in it)
Source(e) == Response[e.reason]

\* C7: for a non-empty listing set and a response of k entries with valid
\* indices, select_top_jobs returns min(k, 10) entries in non-increasing order
\* of score, each made from a different entry of the response, and no entry
\* left out has a higher score than one that was kept.
C7_TopJobs ==
    (called /\ arg.jobs # <<>> /\ IndicesValid) =>
        LET out == ret.val
            kept == {out[i].reason : i \in 1..Len(out)}
        IN  /\ ret.ok
            /\ Len(out) = (IF Len(Response) < TopN THEN Len(Response) ELSE TopN)
            /\ \A i \in 1..(Len(out) - 1) : out[i].score >= out[i + 1].score
            /\ kept \subseteq 1..Len(Response) /\ Cardinality(kept) = Len(out)
            /\ \A i \in 1..Len(out) :
                  /\ out[i].score = Source(out[i]).score
                  /\ out[i].job = arg.jobs[Source(out[i]).index]
            /\ \A p \in (1..Len(Response)) \ kept :
                  \A i \in 1..Len(out) : Response[p].score <= out[i].score

\* a response of more than ten entries, not in order of score, was cut to ten
C7_Witness ==
    /\ called /\ arg.jobs # <<>> /\ IndicesValid /\ ret.ok
    /\ Len(Response) > TopN /\ Len(ret.val) = TopN
    /\ Response[1].score < Response[Len(Response)].score
    /\ ret.val[1].score > ret.val[TopN].score

\* C8: an index i of the response with 1 <= i <= N yields the i-th listing;
\* a response holding an index outside 1..N (0 and negative values included)
\* yields no listing for it: the lookup raises and the run fails.
C8_IndexMapping ==
    (called /\ arg.jobs # <<>> /\ Len(Response) <= TopN) =>
        IF IndicesValid
        THEN /\ ret.ok
             /\ \A i \in 1..Len(ret.val) :
                   ret.val[i].job = arg.jobs[Source(ret.val[i]).index]
        ELSE ~ret.ok /\ ret.exc = "IndexError"

\* a key of the raw listing j that is absent or null
Missing(j, k) == k \notin DOMAIN j \/ j[k].isNone

\* C9: parse_jobs returns, for every list of raw records, one listing per
\* record in the same order; a field whose source is missing or null has its
\* default ("Unknown" for title and company, "" for location, url and posted),
\* and the description is at most 3000 characters long.
C9_Normalization ==
    called =>
        /\ ret.ok
        /\ Len(ret.val) = Len(arg)
        /\ \A i \in 1..Len(arg) :
              LET j == arg[i]
                  l == ret.val[i]
              IN  /\ Missing(j, "job_title") => l.title = Unknown
                  /\ ~Missing(j, "job_title") /\ j["job_title"].s # <<>>
                        => l.title = j["job_title"]
                  /\ Missing(j, "employer_name") => l.company = Unknown
                  /\ (Missing(j, "job_city") /\ Missing(j, "job_country"))
                        => l.location = EmptyStr
                  /\ (Missing(j, "job_apply_link") /\ Missing(j, "job_google_link"))
                        => l.url = EmptyStr
                  /\ Missing(j, "job_posted_at_datetime_utc") => l.posted = EmptyStr
                  /\ Missing(j, "job_description") => l.description = EmptyStr
                  /\ Len(l.description.s) <= DescCap

\* C10: a reply that is valid JSON inside a code fence with a language tag
\* (here the tag the code knows, json) is handed to the JSON parser as the
\* enclosed JSON (white space aside) and parses; a reply that is bare valid
\* JSON is handed over unchanged and parses.
C10_FenceStripping ==
    (called /\ arg.payload \in JsonTexts /\ (arg.fenced => arg.tag = JsonTag)) =>
        /\ Strip(ret.val) = arg.payload
        /\ ret.ok

====
